---- MODULE Spec2Model ----
(***************************************************************************)
(* The search / pagination / batch-fetch pipeline of src/index.js          *)
(* (SillyTavern-Chub-Search).                                              *)
(*                                                                         *)
(* JavaScript is single threaded: a handler or a promise continuation runs *)
(* to its next await on a pending network promise without interleaving.    *)
(* One action of this model is therefore one such run: an event handler up *)
(* to the fetch it leaves pending, or everything that follows the          *)
(* settlement of one fetch (continuations, Promise.all join, .catch and    *)
(* .finally callbacks are microtasks of the same task).                    *)
(*                                                                         *)
(* The popup is open throughout: characterListContainer (line 409) is the  *)
(* list element, so the guards of lines 115 and 695 pass.                  *)
(***************************************************************************)
EXTENDS Integers, Sequences, FiniteSets, TLC

\* Bound: number of search requests sent in one behaviour.
MaxSearches == 2

\* extension_settings.chub.findCount, the page size (default 10 at line 19),
\* scaled down.
findCount == 2

\* batchSize of processCharacters (20 at line 672), scaled down.
batchSize == 2

\* The catalog answers a page request with 0..MaxNodes nodes; it is not under
\* the program's control, so it may also send more than `first` asked for.
MaxNodes == findCount + 1

\* Bound: the nodes of a page whose primary download may be answered with an
\* unsuccessful response. A transport failure may hit the fetch of any node.
FlakyNodes == {1}

VARIABLES
    isLoading,        \* line 27
    currentPage,      \* line 28
    hasMoreResults,   \* line 29
    view,             \* children of characterListContainer: displayed entities
    ops,              \* executeCharacterSearch calls suspended at an await
    searchRequests,   \* number of search requests sent so far (fetch, line 199)
    finished,         \* the executeCharacterSearch call that ended last
    burstTriggers,    \* user-input triggers since the last quiet gap of 250 ms
    burstSearches,    \* search requests those triggers have sent
    lastFresh,        \* number of the fresh search started last (0: none yet)
    chub,             \* extension_settings.chub
    chub0,            \* extension_settings.chub as the host had stored it
    loads,            \* number of calls of loadSettings so far
    options,          \* the argument of the last call of fetchCharactersBySearch
    url,              \* the url that call built (line 182-197), as parameters
    imports           \* the calls of downloadCharacter, by number

\* The state of the search pipeline.
pipeline == <<isLoading, currentPage, hasMoreResults, view, ops, searchRequests,
              finished, burstTriggers, burstSearches, lastFresh>>

\* The state of the other components: settings, query builder, import.
aux == <<chub, chub0, loads, options, url, imports>>

vars == <<isLoading, currentPage, hasMoreResults, view, ops, searchRequests,
          finished, burstTriggers, burstSearches, lastFresh,
          chub, chub0, loads, options, url, imports>>

Min(a, b) == IF a < b THEN a ELSE b

\* Event types of the listeners registered at lines 525-551.
EventTypes == {"change", "click", "keyup"}

\* Where the blob of getCharacter came from: the primary response, the backup
\* response, or the body of an unsuccessful backup response.
Payloads == {"primary", "backup", "errbody"}

\* The object literal of lines 682-689: the entity of node i of search id. The
\* origin of its blob is kept in the fetch state of the node until the batch
\* is joined.
Entity(id, i) == <<id, i>>

\* Pagination state and list as a handler finds them.
Snapshot == [currentPage |-> currentPage, hasMoreResults |-> hasMoreResults,
             view |-> view]

\* order: the nodes of the batch issued last whose fetches have completed, in
\* the order of completion.
NoOp == [id |-> 0, append |-> FALSE, page |-> 0, pc |-> "none", n |-> 0,
         fetch |-> [i \in 1..MaxNodes |-> "none"], processed |-> <<>>,
         issued |-> <<>>, order |-> <<>>, deliveries |-> 0,
         delivered |-> <<>>, logged |-> FALSE, notified |-> FALSE,
         before |-> [currentPage |-> 1, hasMoreResults |-> TRUE,
                     view |-> <<>>]]

\* A call of executeCharacterSearch suspended in `await fetch(url)` (line 199).
NewOp(id, append, page, before) ==
    [NoOp EXCEPT !.id = id, !.append = append, !.page = page,
                 !.pc = "search", !.before = before]

\* The record kept of a call that has ended: how it ended, without the fetch
\* states of its last batch.
Ended(o, how) == [o EXCEPT !.pc = how, !.fetch = NoOp.fetch]

\* defaultSettings, lines 18-21. JavaScript booleans and undefined are written
\* as the strings "true", "false" and "undefined".
defaultSettings == [findCount |-> 10, nsfw |-> "false"]

\* An object without properties.
EmptyObject == [k \in {} |-> 0]

\* extension_settings.chub once loadSettings has run on an empty store.
LoadedDefaults == [exists |-> TRUE, obj |-> defaultSettings]

\* No call of fetchCharactersBySearch yet.
NoOptions == [searchTerm |-> <<>>, includeTags |-> <<>>, excludeTags |-> <<>>,
              nsfw |-> "undefined", sort |-> "undefined", page |-> 1]

\* The module state of lines 23-29.
PipelineInit ==
    /\ isLoading = FALSE
    /\ currentPage = 1
    /\ hasMoreResults = TRUE
    /\ view = <<>>
    /\ ops = {}
    /\ searchRequests = 0
    /\ finished = NoOp
    /\ burstTriggers = 0
    /\ burstSearches = 0
    /\ lastFresh = 0

\* Settings loaded from an empty store, no query built, no import started.
AuxInit ==
    /\ chub = LoadedDefaults
    /\ chub0 = LoadedDefaults
    /\ loads = 1
    /\ options = NoOptions
    /\ url = <<>>
    /\ imports = <<>>

Init == PipelineInit /\ AuxInit

Replace(o, o2) == (ops \ {o}) \cup {o2}

\* updateCharacterListInView, lines 131-134: the new children of the list.
updateCharacterListInView(list, characters, append) ==
    IF append THEN list \o characters ELSE characters

\* A reset to a page index counted from 0.
ResetPageZero(append, page) == IF append THEN page ELSE 0

\* executeCharacterSearch, lines 252-255: the reset of a non-append search.
ResetPage(append, page) == IF append THEN page ELSE 1

ResetHasMore(append, more) == IF append THEN more ELSE TRUE

\* executeCharacterSearch, line 264.
HasMoreAfterPage(len) == len = findCount

\* A scroll handler whose promise chain lacks the .finally of line 581.
ScrollFinallyMissing(loading) == loading

\* scrollHandler, line 581: .finally(() => isLoading = false).
ScrollFinally(loading) == FALSE

\* isLoading after a call of executeCharacterSearch has returned normally:
\* line 273, then the .finally of the scroll handler for an append search.
LoadingAfterReturn(o) == IF o.append THEN ScrollFinally(FALSE) ELSE FALSE

\* isLoading after a call of executeCharacterSearch has thrown: handleSearch
\* (line 514) attaches no handler, scrollHandler attaches .catch and .finally.
LoadingAfterThrow(o) == IF o.append THEN ScrollFinally(isLoading) ELSE isLoading

RECURSIVE SliceFrom(_, _)
\* processCharacters, lines 673-676: nodes.slice(i, i + batchSize) for
\* i = 0, batchSize, ...; nodes are numbered 1..n here.
SliceFrom(i, n) ==
    IF i > n THEN <<>>
    ELSE <<[k \in 1..(Min(i + batchSize - 1, n) - i + 1) |-> i + k - 1]>>
         \o SliceFrom(i + batchSize, n)

Batches(n) == SliceFrom(1, n)

\* processCharacters, line 680: batch.map starts getCharacter for every node of
\* the next batch; each is suspended in the primary fetch (line 621).
StartBatch(o) ==
    LET batch == Batches(o.n)[Len(o.issued) + 1]
        members == {batch[k] : k \in 1..Len(batch)}
    IN [o EXCEPT !.fetch = [i \in 1..MaxNodes |->
                              IF i \in members THEN "wait1" ELSE o.fetch[i]],
                 !.issued = Append(o.issued, Len(batch)),
                 !.order = <<>>]

\* A handleSearch that keeps the scroll position: it resets neither
\* currentPage nor hasMoreResults and asks for the page it finds.
handleSearchPageInput(etype) ==
    /\ searchRequests < MaxSearches
    /\ etype # "keydown"
    /\ isLoading' = FALSE
    /\ ops' = ops \cup {NewOp(searchRequests + 1, FALSE, currentPage, Snapshot)}
    /\ searchRequests' = searchRequests + 1
    /\ burstTriggers' = burstTriggers + 1
    /\ burstSearches' = burstSearches + 1
    /\ lastFresh' = searchRequests + 1
    /\ UNCHANGED <<currentPage, hasMoreResults, view, finished>>

\* The user changes the search box, a tag box, the sort order or the nsfw box,
\* or clicks the search button (listeners of lines 525-533): handleSearch,
\* lines 471-522, runs at once, with executeCharacterSearch (lines 251-259),
\* searchCharacters and fetchCharactersBySearch up to `await fetch(url)`.
\* No listener is registered for keydown, and executeCharacterSearchDebounced
\* (lines 460-468) is called nowhere.
handleSearch(etype) ==
    /\ searchRequests < MaxSearches
    /\ IF etype = "keydown"
       THEN UNCHANGED vars                                   \* line 473
       ELSE LET page == ResetPage(FALSE, 1)                  \* 510, 253
                more == ResetHasMore(FALSE, TRUE)            \* 511, 254
            IN /\ currentPage' = page
               /\ hasMoreResults' = more
               /\ isLoading' = FALSE                         \* 512
               /\ burstTriggers' = burstTriggers + 1
               /\ IF more
                  THEN /\ ops' = ops \cup
                            {NewOp(searchRequests + 1, FALSE, page, Snapshot)}
                       /\ searchRequests' = searchRequests + 1
                       /\ burstSearches' = burstSearches + 1
                       /\ lastFresh' = searchRequests + 1
                  ELSE UNCHANGED <<ops, searchRequests, burstSearches,
                                   lastFresh>>               \* 257
               /\ UNCHANGED <<view, finished>>

\* scrollHandler, lines 554-583: the debounced callback runs; nearBottom is
\* bottomOffset < threshold.
scrollHandler(nearBottom) ==
    /\ searchRequests < MaxSearches
    /\ IF isLoading \/ ~hasMoreResults \/ ~nearBottom
       THEN UNCHANGED vars                                   \* 555, 563
       ELSE LET page == ResetPage(TRUE, currentPage + 1)     \* 573, 577
                more == ResetHasMore(TRUE, hasMoreResults)
            IN /\ currentPage' = page
               /\ hasMoreResults' = more
               /\ IF more
                  THEN /\ isLoading' = TRUE                  \* 564
                       /\ ops' = ops \cup
                            {NewOp(searchRequests + 1, TRUE, page, Snapshot)}
                       /\ searchRequests' = searchRequests + 1
                  ELSE /\ isLoading' = ScrollFinally(TRUE)   \* 257, 581
                       /\ UNCHANGED <<ops, searchRequests>>
               /\ UNCHANGED <<view, finished, burstTriggers, burstSearches,
                              lastFresh>>

\* No user input for the debounce interval (250 ms, line 468).
QuietGap ==
    /\ burstTriggers > 0
    /\ burstTriggers' = 0
    /\ burstSearches' = 0
    /\ UNCHANGED <<isLoading, currentPage, hasMoreResults, view, ops,
                   searchRequests, finished, lastFresh>>

\* The search request of o is answered with n nodes (lines 199-210). With no
\* node executeCharacterSearch ends in its else branch (lines 265-273);
\* otherwise processCharacters starts its first batch.
searchResponse(o, n) ==
    /\ o \in ops
    /\ o.pc = "search"
    /\ IF n = 0
       THEN /\ view' = IF ~o.append THEN <<>> ELSE view      \* 267-269
            /\ hasMoreResults' = FALSE                       \* 270
            /\ isLoading' = LoadingAfterReturn(o)
            /\ ops' = ops \ {o}
            /\ finished' = Ended(o, "done")
       ELSE /\ ops' = Replace(o, StartBatch([o EXCEPT !.n = n, !.pc = "enrich"]))
            /\ UNCHANGED <<view, hasMoreResults, isLoading, finished>>
    /\ UNCHANGED <<currentPage, searchRequests, burstTriggers, burstSearches,
                   lastFresh>>

\* Whether the error of a rejected executeCharacterSearch is written to the
\* console by the program: the .catch of the scroll handler (line 580) calls
\* console.error; handleSearch (line 514) attaches no handler.
ErrorLogged(o) == o.append

\* Whether the error is shown to the user: no path of the search code calls
\* toastr or changes the list on an error (lines 514-521, 579-581).
ErrorNotified(o) == FALSE

\* executeCharacterSearch rejects: nothing of lines 261-273 runs.
EndWithError(o) ==
    /\ ops' = ops \ {o}
    /\ finished' = [Ended(o, "failed") EXCEPT !.logged = ErrorLogged(o),
                                              !.notified = ErrorNotified(o)]
    /\ isLoading' = LoadingAfterThrow(o)
    /\ UNCHANGED <<currentPage, hasMoreResults, view, searchRequests,
                   burstTriggers, burstSearches, lastFresh>>

\* The search request fails: fetch rejects, the body is not JSON, or it has
\* no nodes array (lines 199-205).
searchFail(o) ==
    /\ o \in ops
    /\ o.pc = "search"
    /\ EndWithError(o)

\* The nodes of the batch of o that is in flight.
CurrentBatch(o) == Batches(o.n)[Len(o.issued)]

\* A join that resolves with the first member promise that resolves.
AnyResolved(o, fetch) ==
    \E k \in 1..Len(CurrentBatch(o)) : fetch[CurrentBatch(o)[k]] \in Payloads

\* Promise.all (line 691) resolves once every member promise has resolved.
AllResolved(o, fetch) ==
    \A k \in 1..Len(CurrentBatch(o)) : fetch[CurrentBatch(o)[k]] \in Payloads

\* A join that collects the entities as their fetches complete.
ResultsAsCompleted(o, order) ==
    [k \in 1..Len(order) |-> Entity(o.id, order[k])]

\* processCharacters, line 691: the results of Promise.all are in the order
\* of the batch, whatever the order in which the fetches completed (order).
BatchResults(o, order) ==
    [k \in 1..Len(CurrentBatch(o)) |->
        Entity(o.id, CurrentBatch(o)[k])]

\* A batch update that hands over only the entities of the batch just joined.
DeliveryOfBatchOnly(processed, results) == results

\* processCharacters, line 696: the list handed to updateCharacterListInView
\* after a batch; processed already holds the results (line 692).
Delivery(processed, results) == processed

\* Everything that follows the resolution of the last fetch of a batch of o
\* (fetch: the fetch states with that resolution, order: the nodes of the
\* batch in the order their fetches completed): lines 691-697, then either
\* the next batch (line 680) or the return of processCharacters and the rest
\* of executeCharacterSearch (lines 210-213, 232-236, 261-273).
JoinBatch(o, fetch, order) ==
    LET results == BatchResults(o, order)
        processed == o.processed \o results                  \* 692
        delivery == Delivery(processed, results)
        view1 == updateCharacterListInView(view, delivery, TRUE)   \* 696
        o1 == [o EXCEPT !.fetch = fetch, !.order = order,
                        !.processed = processed,
                        !.deliveries = o.deliveries + 1,
                        !.delivered = delivery]
    IN IF Len(o.issued) < Len(Batches(o.n))
       THEN /\ ops' = Replace(o, StartBatch(o1))
            /\ view' = view1
            /\ UNCHANGED <<hasMoreResults, isLoading, finished>>
       ELSE /\ ops' = ops \ {o}
            /\ view' = updateCharacterListInView(view1, processed, o.append) \* 263
            /\ hasMoreResults' = HasMoreAfterPage(Len(processed))           \* 264
            /\ isLoading' = LoadingAfterReturn(o)
            /\ finished' = Ended(o1, "done")

\* getCharacter of node i of o gets a response it takes its blob from: a
\* successful primary response, or the backup response, successful or not
\* (lines 637-650 test only the primary response).
getCharacterResolve(o, i, payload) ==
    /\ o \in ops
    /\ o.pc = "enrich"
    /\ \/ o.fetch[i] = "wait1" /\ payload = "primary"
       \/ o.fetch[i] = "wait2" /\ payload \in {"backup", "errbody"}
    /\ LET fetch == [o.fetch EXCEPT ![i] = payload]
           order == Append(o.order, i)
       IN IF AllResolved(o, fetch)
          THEN JoinBatch(o, fetch, order)
          ELSE /\ ops' = Replace(o, [o EXCEPT !.fetch = fetch,
                                             !.order = order])
               /\ UNCHANGED <<view, hasMoreResults, isLoading, finished>>
    /\ UNCHANGED <<currentPage, searchRequests, burstTriggers, burstSearches,
                   lastFresh>>

\* The primary response of node i is unsuccessful: getCharacter sends the
\* backup request (lines 637-648).
getCharacterFallback(o, i) ==
    /\ o \in ops
    /\ o.pc = "enrich"
    /\ o.fetch[i] = "wait1"
    /\ i \in FlakyNodes
    /\ ops' = Replace(o, [o EXCEPT !.fetch[i] = "wait2"])
    /\ UNCHANGED <<isLoading, currentPage, hasMoreResults, view, searchRequests,
                   finished, burstTriggers, burstSearches, lastFresh>>

\* A fetch of node i rejects (transport failure, lines 621, 639 or 649):
\* getCharacter throws, Promise.all rejects at once and the rejection goes
\* up through processCharacters, fetchCharactersBySearch and searchCharacters
\* to executeCharacterSearch; none of them catches it.
getCharacterThrow(o, i) ==
    /\ o \in ops
    /\ o.pc = "enrich"
    /\ o.fetch[i] \in {"wait1", "wait2"}
    /\ EndWithError(o)

Next ==
    \/ \E etype \in EventTypes : handleSearch(etype) /\ UNCHANGED aux
    \/ \E nearBottom \in BOOLEAN : scrollHandler(nearBottom) /\ UNCHANGED aux
    \/ QuietGap /\ UNCHANGED aux
    \/ \E o \in ops, n \in 0..MaxNodes : searchResponse(o, n) /\ UNCHANGED aux
    \/ \E o \in ops : searchFail(o) /\ UNCHANGED aux
    \/ \E o \in ops, i \in 1..MaxNodes, payload \in Payloads :
          getCharacterResolve(o, i, payload) /\ UNCHANGED aux
    \/ \E o \in ops, i \in 1..MaxNodes :
          getCharacterFallback(o, i) /\ UNCHANGED aux
    \/ \E o \in ops, i \in 1..MaxNodes :
          getCharacterThrow(o, i) /\ UNCHANGED aux

Spec == Init /\ [][Next]_vars

----------------------------------------------------------------------------
\* Properties.

\* The entities of nodes lo..hi of search id, in node order.
EntitiesOf(id, lo, hi) == [k \in 1..(hi - lo + 1) |-> Entity(id, lo + k - 1)]

\* ceil(n / batchSize)
BatchCount(n) == (n + batchSize - 1) \div batchSize

\* Some call of executeCharacterSearch ends in this step.
Ends == finished' # finished

\* C1: in every reachable state at most one search operation, fresh or
\* append, is in flight.
C1_AtMostOneSearchInFlight == Cardinality(ops) <= 1

\* C2: a fresh search triggered by user input while a fresh search is still
\* loading is a no-op: it sends no search request and leaves the displayed
\* list and the pagination state as they are.
C2_SecondFreshSearchIsNoOp ==
    [][((\E o \in ops : ~o.append) /\ (\E e \in EventTypes : handleSearch(e)))
        => /\ searchRequests' = searchRequests
           /\ UNCHANGED <<view, currentPage, hasMoreResults, isLoading>>]_vars

\* C3: isLoading is false again whenever a search that set it (an append
\* search) ends, on every exit path, and it is false whenever no search is in
\* flight, so the guard never locks out further searches.
C3_LoadingGuardReleased ==
    /\ [](ops = {} => ~isLoading)
    /\ [][\A o \in ops :
            (o.append /\ ~(\E o2 \in ops' : o2.id = o.id)) => ~isLoading']_vars

C3_Witness ==
    /\ finished.append
    /\ finished.pc = "failed"
    /\ finished.n > 0
    /\ ops = {}
    /\ ~isLoading

\* C4: after a page of n entities has been processed, hasMoreResults is false
\* if and only if n < findCount.
C4_HasMoreIffFullPage ==
    [][(Ends /\ finished'.pc = "done")
        => (hasMoreResults' <=> ~(finished'.n < findCount))]_vars

\* C5: a failing per-item fetch does not abort the search: no search that got
\* its nodes ends in failure.
C5_ItemFailureIsolated == finished.pc = "failed" => finished.n = 0

\* C6: an append search that returned n > 0 entities leaves the displayed
\* list as the list before it followed by those entities, once each, and
\* currentPage one greater than before.
C6_AppendAddsPageOnce ==
    [][(Ends /\ finished'.pc = "done" /\ finished'.append /\ finished'.n > 0)
        => /\ view' = finished'.before.view
                        \o EntitiesOf(finished'.id, 1, finished'.n)
           /\ currentPage' = finished'.before.currentPage + 1]_vars

\* C7: processCharacters issues the batches of sizes batchSize, ..., rest,
\* ceil(N / batchSize) in all, and makes one delivery per completed batch, each
\* holding the previous delivery followed by the batch just completed.
C7_BatchesAndDeliveries ==
    /\ \A o \in ops : o.pc = "enrich" =>
          /\ Len(o.issued) = o.deliveries + 1
          /\ Len(o.issued) <= BatchCount(o.n)
          /\ \A k \in 1..Len(o.issued) :
                o.issued[k] = Min(batchSize, o.n - (k - 1) * batchSize)
          /\ o.delivered = EntitiesOf(o.id, 1, batchSize * o.deliveries)
    /\ (finished.pc = "done" /\ finished.n > 0) =>
          /\ Len(finished.issued) = BatchCount(finished.n)
          /\ finished.deliveries = BatchCount(finished.n)
          /\ \A k \in 1..Len(finished.issued) :
                finished.issued[k] =
                    Min(batchSize, finished.n - (k - 1) * batchSize)
          /\ finished.delivered = EntitiesOf(finished.id, 1, finished.n)

C7_Witness ==
    /\ finished.pc = "done"
    /\ finished.n > batchSize
    /\ finished.issued = <<batchSize, finished.n - batchSize>>
    /\ finished.deliveries = 2

\* C8: while hasMoreResults is false an append request changes nothing and
\* sends nothing, and hasMoreResults becomes true again only by the start of
\* a fresh search.
C8_ExhaustedIgnoresAppend ==
    [][~hasMoreResults =>
        /\ (\E b \in BOOLEAN : scrollHandler(b)) =>
              UNCHANGED <<searchRequests, currentPage, hasMoreResults, view>>
        /\ hasMoreResults' => \E e \in EventTypes : handleSearch(e)]_vars

\* C9: a fresh search that begins has reset currentPage to 1 and
\* hasMoreResults to true when its request is sent, and asks for page 1.
C9_FreshSearchResets ==
    [][\A o \in ops' :
          (~o.append /\ ~(\E o1 \in ops : o1.id = o.id))
              => (o.page = 1 /\ currentPage' = 1 /\ hasMoreResults')]_vars

C9_Witness ==
    \E o \in ops :
        /\ ~o.append
        /\ o.pc = "search"
        /\ o.before.currentPage > 1
        /\ ~o.before.hasMoreResults
        /\ o.page = 1
        /\ currentPage = 1
        /\ hasMoreResults

\* C10: a burst of two or more user-input triggers without a quiet gap of the
\* debounce interval sends one search request.
C10_BurstSendsOneSearch == burstTriggers >= 2 => burstSearches <= 1

\* The nodes of o whose getCharacter call is suspended in a fetch.
InFlight(o) == {i \in 1..MaxNodes : o.fetch[i] \in {"wait1", "wait2"}}

\* The number of the batch node i belongs to.
BatchOf(i) == ((i - 1) \div batchSize) + 1

\* C15: getCharacter yields a payload only from a successful response, and
\* fails when both responses are unsuccessful: no entity is built from the
\* body of an unsuccessful response.
C15_PayloadOnlyFromSuccess ==
    \A o \in ops : \A i \in 1..MaxNodes : o.fetch[i] # "errbody"

\* C16: a failed search request, fresh or append, is shown to the user and
\* logged, and no further search request is sent for it.
C16_SearchFailureSurfaced ==
    /\ []((finished.pc = "failed" /\ finished.n = 0)
            => (finished.notified /\ finished.logged))
    /\ [][(\E o \in ops : searchFail(o)) => searchRequests' = searchRequests]_vars

\* C19: currentPage is an integer >= 1 in every reachable state.
C19_CurrentPagePositive == currentPage \in Nat /\ currentPage >= 1

C19_Witness ==
    /\ finished.append
    /\ finished.pc = "failed"
    /\ currentPage > 1
    /\ \E o \in ops : ~o.append

\* C20: within one call of processCharacters the fetches in flight all belong
\* to the batch issued last, every node of an earlier batch has resolved, no
\* node of a later batch has been started, and at most batchSize fetches are
\* in flight.
C20_BatchesSequential ==
    \A o \in ops : o.pc = "enrich" =>
        /\ \A i \in 1..MaxNodes :
              /\ BatchOf(i) < Len(o.issued) => o.fetch[i] \in Payloads
              /\ BatchOf(i) > Len(o.issued) => o.fetch[i] = "none"
              /\ i \in InFlight(o) => (BatchOf(i) = Len(o.issued) /\ i <= o.n)
        /\ Cardinality(InFlight(o)) <= batchSize

C20_Witness ==
    \E o \in ops :
        /\ o.pc = "enrich"
        /\ Len(o.issued) = 2
        /\ InFlight(o) = {batchSize + 1}
        /\ \A i \in 1..batchSize : o.fetch[i] \in Payloads

\* C21: the entities processCharacters has produced are those of nodes
\* 1, 2, ... in this order, within each batch and across batches, whatever
\* the order in which the fetches of a batch completed; entity i is the one
\* of node i.
C21_ResultOrderIsNodeOrder ==
    /\ \A o \in ops : o.pc = "enrich" =>
          /\ o.processed = EntitiesOf(o.id, 1, Len(o.processed))
          /\ Len(o.processed) = Min(batchSize * o.deliveries, o.n)
    /\ (finished.pc = "done" /\ finished.n > 0) =>
          finished.processed = EntitiesOf(finished.id, 1, finished.n)

\* The fetches of a batch completed in the reverse of the node order, and a
\* later batch follows.
C21_Witness ==
    \E o \in ops :
        /\ o.pc = "enrich"
        /\ Len(o.issued) = 2
        /\ o.fetch[2] \in Payloads
        /\ o.fetch[1] \in Payloads
        /\ o.processed = EntitiesOf(o.id, 1, batchSize)
        /\ finished.pc = "done"
        /\ finished.order = <<2, 1>>
        /\ finished.processed = EntitiesOf(finished.id, 1, 2)

\* The calls of executeCharacterSearch that take a step.
Acting == ops \ ops'

\* C22: a search started before the fresh search started last does not
\* change the displayed list, and once no operation is in flight and the
\* call that ended last ended normally and is the fresh search started last
\* or an append after it, the list holds entities of these searches only.
C22_SupersededSearchDoesNotMix ==
    /\ [][view' # view => \A o \in Acting : o.id >= lastFresh]_vars
    /\ []((ops = {} /\ finished.pc = "done" /\ finished.id >= lastFresh)
            => \A k \in 1..Len(view) : view[k][1] >= lastFresh)

\* C23: an append search that fails leaves currentPage as it was before the
\* append was triggered.
C23_FailedAppendKeepsPage ==
    [][(Ends /\ finished'.pc = "failed" /\ finished'.append)
        => currentPage' = finished'.before.currentPage]_vars

\* C24: a fresh search that fails, in its search request or in a fetch of
\* any batch, leaves the displayed list as it was before that search started.
C24_FailedFreshKeepsList ==
    [][(Ends /\ finished'.pc = "failed" /\ ~finished'.append)
        => view' = finished'.before.view]_vars

----------------------------------------------------------------------------
\* Settings: loadSettings, lines 47-62.

\* Bound: number of calls of loadSettings in one behaviour (the code makes
\* one, at line 667).
MaxLoads == 2

\* An object with the given properties; -1 and "missing" stand for a
\* property the object does not have.
StoredObject(fc, ns, th) ==
    [k \in (IF fc = -1 THEN {} ELSE {"findCount"})
           \cup (IF ns = "missing" THEN {} ELSE {"nsfw"})
           \cup (IF th = "missing" THEN {} ELSE {"theme"}) |->
        CASE k = "findCount" -> fc
          [] k = "nsfw" -> ns
          [] k = "theme" -> th]

\* What the host may hold for extension_settings.chub before loadSettings:
\* nothing, or an object with some of the keys, falsy values included, and
\* possibly a key this extension does not know.
StoredSettings ==
    {[exists |-> FALSE, obj |-> EmptyObject]}
    \cup {[exists |-> TRUE, obj |-> StoredObject(fc, ns, th)] :
            fc \in {-1, 0, 10, 25},
            ns \in {"missing", "true", "false"},
            th \in {"missing", "dark", "light"}}

\* A test of the value instead of the key: a falsy value counts as missing.
truthyProperty(obj, key) ==
    /\ key \in DOMAIN obj
    /\ IF key = "findCount" THEN obj[key] # 0 ELSE obj[key] # "false"

\* loadSettings, line 56: extension_settings.chub.hasOwnProperty(key).
hasOwnProperty(obj, key) == key \in DOMAIN obj

\* loadSettings, lines 49-60: the settings object after the call.
MergeDefaults(c) ==
    LET obj == IF c.exists THEN c.obj ELSE EmptyObject       \* 49-52
    IN [exists |-> TRUE,
        obj |-> [k \in DOMAIN obj \cup DOMAIN defaultSettings |->
                   IF hasOwnProperty(obj, k) THEN obj[k]
                   ELSE defaultSettings[k]]]                 \* 55-59

InitSettings ==
    /\ PipelineInit
    /\ chub0 \in StoredSettings
    /\ chub = chub0
    /\ loads = 0
    /\ options = NoOptions
    /\ url = <<>>
    /\ imports = <<>>

loadSettings ==
    /\ loads < MaxLoads
    /\ chub' = MergeDefaults(chub)
    /\ loads' = loads + 1
    /\ UNCHANGED <<chub0, options, url, imports>>
    /\ UNCHANGED pipeline

NextSettings == loadSettings

SpecSettings == InitSettings /\ [][NextSettings]_vars

\* C18: loadSettings fills every default key missing from the stored settings,
\* leaves every existing key, falsy values included, with its value, and a
\* second call changes nothing.
C18_DefaultsMerged ==
    /\ [](loads >= 1 =>
            /\ chub.exists
            /\ DOMAIN chub.obj = DOMAIN chub0.obj \cup {"findCount", "nsfw"}
            /\ \A k \in DOMAIN chub0.obj : chub.obj[k] = chub0.obj[k]
            /\ "findCount" \notin DOMAIN chub0.obj => chub.obj["findCount"] = 10
            /\ "nsfw" \notin DOMAIN chub0.obj => chub.obj["nsfw"] = "false")
    /\ [][loads >= 1 => chub' = chub]_vars

C18_Witness ==
    /\ loads = 2
    /\ chub0.exists
    /\ DOMAIN chub0.obj = {"findCount", "theme"}
    /\ chub0.obj["findCount"] = 0
    /\ chub.obj["findCount"] = 0
    /\ chub.obj["nsfw"] = "false"
    /\ chub.obj["theme"] = "dark"

----------------------------------------------------------------------------
\* Query builder: fetchCharactersBySearch, lines 168-197. Strings are
\* sequences of characters.

\* The length tags are cut to: slice(0, 100), lines 188 and 195.
tagLimit == 100

\* Bound: number of entries of includeTags and of excludeTags.
MaxTags == 2

Rep(c, n) == [i \in 1..n |-> c]

Elf == <<"e", "l", "f">>

Fantasy == <<"f", "a", "n", "t", "a", "s", "y">>

\* A tag one character short of the limit.
LongTag == Rep("a", tagLimit - 1)

\* Entries of a tag list: splitAndTrim (lines 477-483) yields the empty string
\* for an empty box or a trailing comma.
Tags == {<<>>, Fantasy, LongTag}

TagLists == UNION {[1..n -> Tags] : n \in 0..MaxTags}

OptionsSet ==
    [searchTerm : {<<>>, Elf}, includeTags : TagLists, excludeTags : TagLists,
     nsfw : {"true", "false", "undefined"}, sort : {"undefined", "rating"},
     page : {1, 2}]

\* Settings as loadSettings leaves them.
LoadedSettings ==
    {[exists |-> TRUE, obj |-> StoredObject(fc, ns, "missing")] :
        fc \in {10, 25}, ns \in {"true", "false"}}

\* JavaScript truthiness of the values written as strings here.
Truthy(v) == v \notin {"false", "undefined", ""}

\* a ?? b: b only for an undefined a.
JsNullish(a, b) == IF a = "undefined" THEN b ELSE a

\* a || b, lines 174 and 178.
JsOr(a, b) == IF Truthy(a) THEN a ELSE b

RECURSIVE Join(_, _)
\* Array.prototype.join, lines 188 and 195.
Join(list, sep) ==
    IF list = <<>> THEN <<>>
    ELSE IF Len(list) = 1 THEN list[1]
    ELSE list[1] \o <<sep>> \o Join(Tail(list), sep)

\* String.prototype.slice(0, n), lines 188 and 195.
Slice(str, n) == SubSeq(str, 1, Min(Len(str), n))

RECURSIVE encodeURIComponent(_)
\* encodeURIComponent (lines 177, 189, 196) on letters and commas: every
\* character is encoded by itself, so the string is encoded by halves.
encodeURIComponent(str) ==
    IF str = <<>> THEN <<>>
    ELSE IF Len(str) = 1
         THEN (IF str[1] = "," THEN <<"%", "2", "C">> ELSE str)
         ELSE encodeURIComponent(SubSeq(str, 1, Len(str) \div 2))
              \o encodeURIComponent(SubSeq(str, Len(str) \div 2 + 1, Len(str)))

NonEmpty(tag) == Len(tag) > 0

\* A builder that joins the tags as they come.
KeepTags(tags) == tags

\* lines 185 and 192: filter(tag => tag.length > 0).
FilterTags(tags) == SelectSeq(tags, NonEmpty)

\* lines 186-190 and 193-197: the parameter a tag list adds to the url.
TagParam(name, tags) ==
    LET kept == FilterTags(tags)
    IN IF Len(kept) > 0
       THEN << <<name, encodeURIComponent(Slice(Join(kept, ","), tagLimit))>> >>
       ELSE <<>>

\* lines 171-197: the url as the sequence of its parameters.
BuildUrl(opts, c) ==
    LET first == c.obj["findCount"]                          \* 171
        nsfw == JsOr(opts.nsfw, c.obj["nsfw"])               \* 174
        sort == JsOr(opts.sort, "download_count")            \* 178
        search == IF opts.searchTerm # <<>>                  \* 177
                  THEN << <<"search", encodeURIComponent(opts.searchTerm)>> >>
                  ELSE <<>>
    IN search
       \o << <<"first", first>>, <<"page", opts.page>>, <<"sort", sort>>,
             <<"asc", "false">>, <<"venus", "true">>,
             <<"include_forks", "true">>, <<"nsfw", nsfw>>,
             <<"require_images", "false">>,
             <<"require_custom_prompt", "false">> >>          \* 182
       \o TagParam("tags", opts.includeTags)
       \o TagParam("exclude_tags", opts.excludeTags)

InitQuery ==
    /\ PipelineInit
    /\ chub \in LoadedSettings
    /\ chub0 = chub
    /\ loads = 1
    /\ options = NoOptions
    /\ url = <<>>
    /\ imports = <<>>

\* fetchCharactersBySearch is called with opts and builds its url. The url
\* depends on opts and the settings only, so one call per behaviour is made.
fetchCharactersBySearch(opts) ==
    /\ url = <<>>
    /\ options' = opts
    /\ url' = BuildUrl(opts, chub)
    /\ UNCHANGED <<chub, chub0, loads, imports>>
    /\ UNCHANGED pipeline

NextQuery ==
    /\ url = <<>>
    /\ \E opts \in OptionsSet : fetchCharactersBySearch(opts)

SpecQuery == InitQuery /\ [][NextQuery]_vars

\* Reading a url.
HasParam(u, name) == \E k \in 1..Len(u) : u[k][1] = name

ParamValue(u, name) == u[CHOOSE k \in 1..Len(u) : u[k][1] = name][2]

NotDropped(c) == c # "dropped"

\* What the receiver of the url reads: the inverse of encodeURIComponent. An
\* escape %2C becomes a comma and its two digits are dropped.
decodeURIComponent(str) ==
    SelectSeq([k \in 1..Len(str) |->
                  IF str[k] = "%" THEN ","
                  ELSE IF (k > 1 /\ str[k - 1] = "%") \/ (k > 2 /\ str[k - 2] = "%")
                       THEN "dropped"
                       ELSE str[k]],
              NotDropped)

RECURSIVE Split(_, _)
\* The members of a separated list.
Split(str, sep) ==
    IF \A k \in 1..Len(str) : str[k] # sep THEN <<str>>
    ELSE LET k == CHOOSE j \in 1..Len(str) :
                      str[j] = sep /\ \A h \in 1..(j - 1) : str[h] # sep
         IN <<SubSeq(str, 1, k - 1)>> \o Split(SubSeq(str, k + 1, Len(str)), sep)

TagsAsSent(name) == decodeURIComponent(ParamValue(url, name))

\* C11: the tags and exclude_tags strings of the built query are, before
\* encoding, at most 100 characters long and have no empty member when read
\* as comma-separated lists.
C11_TagsWithinLimitNoEmpty ==
    \A name \in {"tags", "exclude_tags"} :
        HasParam(url, name) =>
            /\ Len(TagsAsSent(name)) <= tagLimit
            /\ \A k \in 1..Len(Split(TagsAsSent(name), ",")) :
                  Split(TagsAsSent(name), ",")[k] # <<>>

\* The request of the example of C12.
ExampleOptions ==
    [searchTerm |-> Elf, includeTags |-> <<Fantasy, <<>>>>,
     excludeTags |-> <<>>, nsfw |-> "false", sort |-> "undefined", page |-> 1]

\* C12: tags (exclude_tags) is in the built query exactly if includeTags
\* (excludeTags) has a non-empty entry, search exactly if searchTerm is not
\* empty; the example request yields search=elf, tags=fantasy, no
\* exclude_tags and nsfw=false.
C12_ParamsPresentIffGiven ==
    url # <<>> =>
        /\ HasParam(url, "tags") <=>
              \E k \in 1..Len(options.includeTags) : options.includeTags[k] # <<>>
        /\ HasParam(url, "exclude_tags") <=>
              \E k \in 1..Len(options.excludeTags) : options.excludeTags[k] # <<>>
        /\ HasParam(url, "search") <=> options.searchTerm # <<>>
        /\ (options = ExampleOptions /\ chub = LoadedDefaults) =>
              /\ decodeURIComponent(ParamValue(url, "search")) = Elf
              /\ TagsAsSent("tags") = Fantasy
              /\ ~HasParam(url, "exclude_tags")
              /\ ParamValue(url, "nsfw") = "false"

C12_Witness ==
    /\ options = ExampleOptions
    /\ chub = LoadedDefaults
    /\ HasParam(url, "search")
    /\ HasParam(url, "tags")
    /\ ~HasParam(url, "exclude_tags")

-----------------------------------------------------------------------------
\* downloadCharacter, lines 69-107: the import of a character by its path.
\* A click on a download button calls it without awaiting it (line 456), so
\* several imports can be under way; imports holds one record per call.

\* Calls of downloadCharacter in one behaviour.
MaxImports == 2

Space == " "

\* The data-path values the click handler passes, with and without blanks
\* around the path.
Inputs == {<<"p">>, <<Space, "p", Space>>, <<"q">>}

RECURSIVE TrimStart(_)
TrimStart(str) ==
    IF str # <<>> /\ Head(str) = Space THEN TrimStart(Tail(str)) ELSE str

RECURSIVE TrimEnd(_)
TrimEnd(str) ==
    IF str # <<>> /\ str[Len(str)] = Space
    THEN TrimEnd(SubSeq(str, 1, Len(str) - 1))
    ELSE str

\* line 70: input.trim().
Trim(str) == TrimEnd(TrimStart(str))

\* The responses of the import endpoints: the status, the value of
\* X-Custom-Content-Type ("null" for a response without the header) and the
\* file name of Content-Disposition. A successful response carries a
\* Content-Disposition header; an unsuccessful one has no file.
Responses ==
    {[status |-> 200, ctype |-> ct, file |-> "card.png"] :
        ct \in {"character", "lorebook", "null"}}
    \cup {[status |-> st, ctype |-> "null", file |-> "null"] : st \in {404, 500}}

\* Response.ok.
Ok(r) == r.status \in 200..299

\* A call of downloadCharacter: where it is suspended (pc), the requests it
\* has posted, the responses it has received (the last one is the value of
\* request), what it handed to processDroppedFiles, its toasts and console
\* errors, and how it ended.
NewImport(u) ==
    [url |-> u, pc |-> "primary",
     posts |-> << [endpoint |-> "/api/content/importUUID", body |-> u] >>,
     responses |-> <<>>, dropped |-> <<>>, info |-> 0, warning |-> 0,
     errors |-> <<>>, outcome |-> "pending"]

\* A mutation of NeedsLegacy: the legacy endpoint is always tried.
AlwaysLegacy(r) == TRUE

\* line 79: the legacy endpoint is tried after an unsuccessful response.
NeedsLegacy(r) == ~Ok(r)

\* A mutation of IsCharacter: every content type is ingested.
AnyContentType(ctype) == TRUE

\* line 99: case 'character'.
IsCharacter(ctype) == ctype = "character"

\* lines 80-84: the second POST, with the same headers and body.
PostLegacy(m, r) ==
    [m EXCEPT !.pc = "legacy", !.responses = Append(@, r),
              !.posts = Append(@, [endpoint |-> "/import_custom",
                                   body |-> m.url])]

\* lines 86-106: what downloadCharacter does with the response it is left
\* with. The blob of a response that arrived is taken as read.
Finish(m, r) ==
    IF ~Ok(r)
    THEN [m EXCEPT !.pc = "done", !.responses = Append(@, r),
                   !.info = @ + 1,                                     \* 87
                   !.errors = Append(@, "Custom content import failed"),
                   !.outcome = "returned"]                             \* 89
    ELSE IF IsCharacter(r.ctype)
    THEN [m EXCEPT !.pc = "done", !.responses = Append(@, r),
                   !.dropped = Append(@, r.file),                      \* 100
                   !.outcome = "returned"]
    ELSE [m EXCEPT !.pc = "done", !.responses = Append(@, r),
                   !.warning = @ + 1,                                  \* 103
                   !.errors = Append(@, "Unknown content type"),
                   !.outcome = "returned"]

InitImport == Init

\* lines 69-78: the call, up to the first fetch.
downloadCharacter(input) ==
    /\ Len(imports) < MaxImports
    /\ imports' = Append(imports, NewImport(Trim(input)))
    /\ UNCHANGED <<chub, chub0, loads, options, url>>
    /\ UNCHANGED pipeline

\* lines 79-106: the primary endpoint answers with r.
importPrimaryResponse(i, r) ==
    /\ imports[i].pc = "primary"
    /\ imports' = [imports EXCEPT ![i] =
                      IF NeedsLegacy(r) THEN PostLegacy(@, r) ELSE Finish(@, r)]
    /\ UNCHANGED <<chub, chub0, loads, options, url>>
    /\ UNCHANGED pipeline

\* lines 86-106: the legacy endpoint answers with r.
importLegacyResponse(i, r) ==
    /\ imports[i].pc = "legacy"
    /\ imports' = [imports EXCEPT ![i] = Finish(@, r)]
    /\ UNCHANGED <<chub, chub0, loads, options, url>>
    /\ UNCHANGED pipeline

\* lines 74 and 80: the pending fetch rejects (no answer from the host) and
\* the await throws out of downloadCharacter, which catches nothing.
importReject(i) ==
    /\ imports[i].pc \in {"primary", "legacy"}
    /\ imports' = [imports EXCEPT ![i].pc = "done", ![i].outcome = "threw"]
    /\ UNCHANGED <<chub, chub0, loads, options, url>>
    /\ UNCHANGED pipeline

NextImport ==
    \/ \E input \in Inputs : downloadCharacter(input)
    \/ \E i \in 1..Len(imports), r \in Responses : importPrimaryResponse(i, r)
    \/ \E i \in 1..Len(imports), r \in Responses : importLegacyResponse(i, r)
    \/ \E i \in 1..Len(imports) : importReject(i)

SpecImport == InitImport /\ [][NextImport]_vars

\* The endpoints an import has posted to, in order.
Endpoints(m) == [k \in 1..Len(m.posts) |-> m.posts[k].endpoint]

\* The imports that got a successful response.
Succeeded(m) == \E k \in 1..Len(m.responses) : Ok(m.responses[k])

\* The first successful response of an import that has one.
FirstSuccess(m) ==
    m.responses[CHOOSE k \in 1..Len(m.responses) :
                    /\ Ok(m.responses[k])
                    /\ \A j \in 1..(k - 1) : ~Ok(m.responses[j])]

\* The imports whose two endpoints both answered unsuccessfully.
BothFailed(m) ==
    /\ Len(m.responses) = 2
    /\ \A k \in 1..2 : ~Ok(m.responses[k])

\* C13: an import posts to the primary endpoint first, and to the legacy
\* endpoint only after an unsuccessful primary response and with the same
\* payload; when the first successful response declares the content type
\* character, the ingestion callback is invoked exactly once for that import.
C13_PrimaryThenLegacyIngestOnce ==
    /\ [](\A i \in 1..Len(imports) :
            /\ Endpoints(imports[i]) \in
                  {<<"/api/content/importUUID">>,
                   <<"/api/content/importUUID", "/import_custom">>}
            /\ \A k \in 1..Len(imports[i].posts) :
                  imports[i].posts[k].body = imports[i].url
            /\ Len(imports[i].posts) = 2 =>
                  /\ Len(imports[i].responses) >= 1
                  /\ ~Ok(imports[i].responses[1])
            /\ Len(imports[i].dropped) <= 1
            /\ (Succeeded(imports[i])
                /\ FirstSuccess(imports[i]).ctype = "character")
                  => Len(imports[i].dropped) = 1)
    /\ [][\A i \in 1..Len(imports), r \in Responses :
             (importPrimaryResponse(i, r)
              /\ Len(imports'[i].posts) > Len(imports[i].posts)) => ~Ok(r)]_vars

\* The example of C13: primary 500, then legacy 200 with type character.
C13_Witness ==
    \E i \in 1..Len(imports) :
        /\ imports[i].pc = "done"
        /\ Len(imports[i].posts) = 2
        /\ Len(imports[i].responses) = 2
        /\ imports[i].responses[1].status = 500
        /\ imports[i].responses[2].status = 200
        /\ imports[i].responses[2].ctype = "character"
        /\ Len(imports[i].dropped) = 1

====
